---- MODULE Spec2Model ----
(***************************************************************************)
(* Model of translate_requirements.py: a batch translator that reads an    *)
(* input text file, skips the lines an earlier run already translated      *)
(* (--resume), sends the remaining lines batch by batch to a remote        *)
(* service behind a bounded retry loop, and rewrites the output file in    *)
(* full after every batch.                                                 *)
(*                                                                         *)
(* Text is modelled as a sequence of characters, so that splitlines, join, *)
(* replace and strip are computed and not assumed.  The file system (the   *)
(* input file and the output file) outlives a run of the program, and the  *)
(* program may be run again on what an earlier run left behind.            *)
(***************************************************************************)
EXTENDS Integers, Sequences, FiniteSets, TLC

\* ---------------------------------------------------------------- bounds
MaxLines == 3      \* lines of the input file
MaxBatch == 2      \* largest --batch_size tried
MaxRuns  == 2      \* runs of the program over the same files
MaxItems == 4      \* items given to chunk_list on its own
MaxChunk == 5      \* largest chunk_size given to chunk_list on its own

\* ------------------------------------------------------ program constants
MaxRetries == 8    \* call_with_retry(fn, max_retries=8)

\* ------------------------------------------------------------- characters
LF == "\n"
CR == "\r"
SP == " "

\* str.splitlines() breaks a text at these (and "\r\n" counts once)
LineBreaks == {LF, CR}
\* str.strip() removes these from both ends
Whitespace == {SP, LF, CR}

\* ----------------------------------------------------------- text helpers
RECURSIVE splitlines(_, _, _, _)
\* text.splitlines(): i is the read position, cur the line being read,
\* acc the lines found; no empty last line after a final line break
splitlines(text, i, cur, acc) ==
    IF i > Len(text)
    THEN IF cur = <<>> THEN acc ELSE Append(acc, cur)
    ELSE IF text[i] = CR /\ i < Len(text) /\ text[i + 1] = LF
    THEN splitlines(text, i + 2, <<>>, Append(acc, cur))
    ELSE IF text[i] \in LineBreaks
    THEN splitlines(text, i + 1, <<>>, Append(acc, cur))
    ELSE splitlines(text, i + 1, Append(cur, text[i]), acc)

\* read_lines(path): the lines of the file's text
read_lines(text) == splitlines(text, 1, <<>>, <<>>)

RECURSIVE join(_)
\* "\n".join(lines)
join(lines) ==
    IF lines = <<>> THEN <<>>
    ELSE IF Len(lines) = 1 THEN lines[1]
    ELSE lines[1] \o <<LF>> \o join(Tail(lines))

RECURSIVE join_nosep(_)
\* fault: the lines are written with nothing between them
join_nosep(lines) ==
    IF lines = <<>> THEN <<>> ELSE lines[1] \o join_nosep(Tail(lines))

write_text_nosep(lines) == join_nosep(lines) \o <<LF>>

\* the text written at a checkpoint: "\n".join(out_lines) + "\n"
write_text(lines) == join(lines) \o <<LF>>

RECURSIVE lstrip(_)
lstrip(s) == IF s # <<>> /\ Head(s) \in Whitespace THEN lstrip(Tail(s)) ELSE s

RECURSIVE rstrip(_)
rstrip(s) ==
    IF s # <<>> /\ s[Len(s)] \in Whitespace
    THEN rstrip(SubSeq(s, 1, Len(s) - 1))
    ELSE s

\* str.strip()
strip(s) == rstrip(lstrip(s))

\* t.replace("\n", " ")
replace_nl(t) == [i \in 1..Len(t) |-> IF t[i] = LF THEN SP ELSE t[i]]

\* "Ensure single-line outputs": t.replace("\n", " ").strip()
single_line(t) == strip(replace_nl(t))

\* fault: only the empty line counts as blank
is_blank_unstripped(x) == x = <<>>

\* not x.strip()
is_blank(x) == strip(x) = <<>>

\* all(not x.strip() for x in batch)
all_blank(batch) == \A k \in 1..Len(batch) : is_blank(batch[k])

\* fault: the lines already done are not skipped
slice_from_start(items, start) == items

\* items[start:] with a 0-based start
slice_from(items, start) ==
    IF start >= Len(items) THEN <<>> ELSE SubSeq(items, start + 1, Len(items))

RECURSIVE chunk_loop(_, _, _, _, _)
\* fault: what is left in buf at the end is dropped
chunk_loop_noflush(items, chunk_size, i, buf, chunks) ==
    IF i > Len(items)
    THEN chunks
    ELSE LET b == Append(buf, items[i]) IN
         IF Len(b) >= chunk_size
         THEN chunk_loop(items, chunk_size, i + 1, <<>>, Append(chunks, b))
         ELSE chunk_loop(items, chunk_size, i + 1, b, chunks)

\* fault: a chunk is closed when it is longer than chunk_size
chunk_loop_over(items, chunk_size, i, buf, chunks) ==
    IF i > Len(items)
    THEN IF buf # <<>> THEN Append(chunks, buf) ELSE chunks
    ELSE LET b == Append(buf, items[i]) IN
         IF Len(b) > chunk_size
         THEN chunk_loop(items, chunk_size, i + 1, <<>>, Append(chunks, b))
         ELSE chunk_loop(items, chunk_size, i + 1, b, chunks)

\* the loop of chunk_list; what is left in buf is flushed at the end only
\* when it is not empty
chunk_loop(items, chunk_size, i, buf, chunks) ==
    IF i > Len(items)
    THEN IF buf # <<>> THEN Append(chunks, buf) ELSE chunks
    ELSE LET b == Append(buf, items[i]) IN
         IF Len(b) >= chunk_size
         THEN chunk_loop(items, chunk_size, i + 1, <<>>, Append(chunks, b))
         ELSE chunk_loop(items, chunk_size, i + 1, b, chunks)

\* fault: every chunk is put in front of the chunks found so far
chunk_list_front(items, chunk_size) ==
    LET c == chunk_loop(items, chunk_size, 1, <<>>, <<>>)
    IN  [k \in 1..Len(c) |-> c[Len(c) + 1 - k]]

chunk_list(items, chunk_size) == chunk_loop(items, chunk_size, 1, <<>>, <<>>)

\* ------------------------------------------------------------ retry loop
\* fault: the loop gives up one attempt early
last_attempt_early(a, max_retries) == a = max_retries - 2

\* fault: no attempt is ever the last
last_attempt_never(a, max_retries) == FALSE

\* fault: the last attempt is taken to be the one after the last
last_attempt_late(a, max_retries) == a = max_retries

\* `attempt == max_retries - 1`: the failure of the last attempt is re-raised
last_attempt(a, max_retries) == a = max_retries - 1

\* --------------------------------------------------------- remote service
\* What one call of _do gets back: the request raised (network, service or
\* JSON decoding error), or the reply decoded to a "translations" array.
ReplyStr == { <<"b", LF, "b", SP>>, <<"b", CR, "b">> }

Responses(n) ==
    {[raised |-> TRUE, translations |-> <<>>]} \cup
    {[raised |-> FALSE, translations |-> r] :
        r \in UNION {[1..k -> ReplyStr] : k \in {n - 1, n, n + 1} \cap Nat}}

\* fault: the length of the reply is not compared with the batch
do_raises_unchecked(ls, resp) == resp.raised

\* fault: only a reply that is too short is refused
do_raises_short(ls, resp) ==
    resp.raised \/ Len(resp.translations) < Len(ls)

\* _do raises: the call itself failed, or len(out) != len(lines)
do_raises(ls, resp) == resp.raised \/ Len(resp.translations) # Len(ls)

\* _do returns: every translation made a single line
do_returns(resp) ==
    [k \in 1..Len(resp.translations) |-> single_line(resp.translations[k])]

\* the failure _do raises on a response: the one the request or the JSON
\* decoding raised, or RuntimeError("Batch size mismatch ...")
failure_of(ls, resp) ==
    IF resp.raised THEN "RemoteError" ELSE "BatchSizeMismatch"

\* before the first call there is no response
NoResponse == [raised |-> TRUE, translations |-> <<>>]

\* random.uniform(0, 0.5), in milliseconds: the ends of its range
JitterLimitMs == 500
JitterMs == {0, JitterLimitMs - 1}

\* fault: 2 * attempt for 2 ** attempt
sleep_s_linear(a, jitter) == 1000 * (2 * a) + jitter

\* sleep_s = (2 ** attempt) + random.uniform(0, 0.5), in milliseconds
sleep_s(a, jitter) == 1000 * (2 ^ a) + jitter

\* ------------------------------------------------------------------ state
VARIABLES
    in_txt,      \* text of the input file (--in_txt)
    out_exists,  \* out_path.exists()
    out_txt,     \* text of the output file (--out_txt) when it exists
    pc,          \* where the program is: "idle" (not started), "loop",
                 \* "retry", "write", "done", "aborted"
    resume,      \* args.resume
    batch_size,  \* args.batch_size
    src_lines,   \* main: src_lines
    done,        \* main: done
    out_lines,   \* main: out_lines, the accumulator
    chunks,      \* main: chunks
    bi,          \* index (from 1) of the batch the for loop is at
    lines,       \* translate_batch: the lines of the request
    attempt,     \* call_with_retry: attempt
    runs,        \* history: runs started so far
    prev,        \* history: how the previous run ended ("idle": there was
                 \* none), and whether every reply it accepted was the
                 \* translation a well-behaved remote gives
    called,      \* history: this run made a remote call
    retried,     \* history: this run had a failed attempt
    accepted,    \* history: the reply string accepted for each line this
                 \* run handled (<<>> for the lines of an all-blank batch)
    \* call_with_retry taken alone, an attempt unfolded into call, response
    \* and wait (these stay as they are while main is run as a whole)
    max_retries, \* call_with_retry: max_retries
    response,    \* what the latest call of fn got back
    result,      \* the value call_with_retry returned
    failure,     \* the failure that left call_with_retry ("none": none)
    calls,       \* history: calls of fn so far
    waits,       \* history: sleeps so far
    sleep_ms,    \* sleep_s of the latest sleep, in milliseconds
    slept_ms     \* history: the sleeps so far added up, in milliseconds

vars == <<in_txt, out_exists, out_txt, pc, resume, batch_size, src_lines,
          done, out_lines, chunks, bi, lines, attempt, runs, prev, called,
          retried, accepted, max_retries, response, result, failure, calls,
          waits, sleep_ms, slept_ms>>

files == <<in_txt, out_exists, out_txt>>
args == <<resume, batch_size>>
history == <<runs, prev, called, retried, accepted>>
retry_state == <<max_retries, response, result, failure, calls, waits,
                 sleep_ms, slept_ms>>

\* the state of call_with_retry when it is not looked into
RetryIdle ==
    /\ max_retries = MaxRetries
    /\ response = NoResponse
    /\ result = <<>>
    /\ failure = "none"
    /\ calls = 0
    /\ waits = 0
    /\ sleep_ms = 0
    /\ slept_ms = 0

\* ---------------------------------------------------------------- inputs
\* an empty line, a whitespace-only line, a requirement
SrcLine == { <<>>, <<SP>>, <<"a">> }

SeqsUpTo(S, n) == UNION {[1..k -> S] : k \in 0..n}

\* input files, by their lines; also the empty file, a file with no final
\* line break and one with a "\r\n" line ending
InputTexts == {join(ls) \o <<LF>> : ls \in SeqsUpTo(SrcLine, MaxLines) \ {<<>>}}
                  \cup {<<>>, <<"a">>, <<"a", CR, LF, SP, LF>>}

\* output files found before the first run: k lines "x", k up to MaxLines + 1
PriorTexts == {join([j \in 1..k |-> <<"x">>]) \o <<LF>> : k \in 1..(MaxLines + 1)}
                  \cup {<<>>}

\* the translation a well-behaved remote gives a line
Translate(l) == <<"b", LF, "b", SP>>

\* every reply this run accepted is that translation of its source line
\* (an all-blank batch has no reply: <<>> is recorded for its lines)
WellBehaved(src, d, acc) ==
    \A i \in 1..Len(acc) : acc[i] \in {<<>>, Translate(src[d + i])}

Init ==
    /\ in_txt \in InputTexts
    /\ out_exists \in BOOLEAN
    /\ out_txt \in (IF out_exists THEN PriorTexts ELSE {<<>>})
    /\ pc = "idle"
    /\ resume = FALSE
    /\ batch_size = 1
    /\ src_lines = <<>>
    /\ done = 0
    /\ out_lines = <<>>
    /\ chunks = <<>>
    /\ bi = 1
    /\ lines = <<>>
    /\ attempt = 0
    /\ runs = 0
    /\ prev = [ended |-> "idle", well_behaved |-> TRUE]
    /\ called = FALSE
    /\ retried = FALSE
    /\ accepted = <<>>
    /\ RetryIdle

\* --------------------------------------------------------------- actions
\* main, lines 122-138: read the input, decide where to resume, chunk
Start(r, bs) ==
    /\ UNCHANGED retry_state
    /\ pc \in {"idle", "done", "aborted"}
    /\ runs < MaxRuns
    /\ LET src == read_lines(in_txt)
           existing == IF r /\ out_exists THEN read_lines(out_txt) ELSE <<>>
           d == Len(existing)
       IN /\ src_lines' = src
          /\ done' = d
          /\ out_lines' = existing
          /\ chunks' = chunk_list(slice_from(src, d), bs)
    /\ resume' = r
    /\ batch_size' = bs
    /\ bi' = 1
    /\ lines' = <<>>
    /\ attempt' = 0
    /\ pc' = "loop"
    /\ runs' = runs + 1
    /\ prev' = [ended |-> pc,
                well_behaved |-> WellBehaved(src_lines, done, accepted)]
    /\ called' = FALSE
    /\ retried' = FALSE
    /\ accepted' = <<>>
    /\ UNCHANGED files

\* lines 141-142: an all-blank batch is not sent
BlankBatch ==
    /\ UNCHANGED retry_state
    /\ pc = "loop"
    /\ bi <= Len(chunks)
    /\ all_blank(chunks[bi])
    /\ out_lines' = out_lines \o [k \in 1..Len(chunks[bi]) |-> <<>>]
    /\ accepted' = accepted \o [k \in 1..Len(chunks[bi]) |-> <<>>]
    /\ pc' = "write"
    /\ UNCHANGED <<files, args, src_lines, done, chunks, bi, lines, attempt,
                   runs, prev, called, retried>>

\* line 144, lines 67-69 and 110: translate_batch enters call_with_retry
BeginTranslate ==
    /\ UNCHANGED retry_state
    /\ pc = "loop"
    /\ bi <= Len(chunks)
    /\ ~all_blank(chunks[bi])
    /\ lines' = chunks[bi]
    /\ attempt' = 0
    /\ pc' = "retry"
    /\ UNCHANGED <<files, args, src_lines, done, out_lines, chunks, bi,
                   history>>

\* lines 59, 71-108 and 145: an attempt returns, the batch is appended
AttemptReturn ==
    /\ UNCHANGED retry_state
    /\ pc = "retry"
    /\ \E resp \in Responses(Len(lines)) :
          /\ ~do_raises(lines, resp)
          /\ out_lines' = out_lines \o do_returns(resp)
          /\ accepted' = accepted \o resp.translations
    /\ called' = TRUE
    /\ lines' = <<>>
    /\ attempt' = 0
    /\ pc' = "write"
    /\ UNCHANGED <<files, args, src_lines, done, chunks, bi, runs, prev,
                   retried>>

\* lines 60-64: an attempt fails, attempts remain: sleep, then try again
AttemptRetry ==
    /\ UNCHANGED retry_state
    /\ pc = "retry"
    /\ \E resp \in Responses(Len(lines)) : do_raises(lines, resp)
    /\ ~last_attempt(attempt, MaxRetries)
    /\ attempt' = attempt + 1
    /\ called' = TRUE
    /\ retried' = TRUE
    /\ UNCHANGED <<files, args, pc, src_lines, done, out_lines, chunks, bi,
                   lines, runs, prev, accepted>>

\* lines 60-62: the last attempt fails, the failure leaves main
AttemptRaise ==
    /\ UNCHANGED retry_state
    /\ pc = "retry"
    /\ \E resp \in Responses(Len(lines)) : do_raises(lines, resp)
    /\ last_attempt(attempt, MaxRetries)
    /\ called' = TRUE
    /\ retried' = TRUE
    /\ pc' = "aborted"
    /\ UNCHANGED <<files, args, src_lines, done, out_lines, chunks, bi,
                   lines, attempt, runs, prev, accepted>>

\* lines 147-148: the checkpoint rewrites the whole output file
Checkpoint ==
    /\ UNCHANGED retry_state
    /\ pc = "write"
    /\ out_exists' = TRUE
    /\ out_txt' = write_text(out_lines)
    /\ bi' = bi + 1
    /\ pc' = "loop"
    /\ UNCHANGED <<in_txt, args, src_lines, done, out_lines, chunks, lines,
                   attempt, history>>

\* line 150: no batch is left
Finish ==
    /\ UNCHANGED retry_state
    /\ pc = "loop"
    /\ bi > Len(chunks)
    /\ pc' = "done"
    /\ UNCHANGED <<files, args, src_lines, done, out_lines, chunks, bi,
                   lines, attempt, history>>

Next ==
    \/ \E r \in BOOLEAN, bs \in 1..MaxBatch : Start(r, bs)
    \/ BlankBatch
    \/ BeginTranslate
    \/ AttemptReturn
    \/ AttemptRetry
    \/ AttemptRaise
    \/ Checkpoint
    \/ Finish

Spec == Init /\ [][Next]_vars

\* ------------------------------------------------------------- type check
TypeOK ==
    /\ pc \in {"idle", "loop", "retry", "write", "done", "aborted"}
    /\ resume \in BOOLEAN
    /\ batch_size \in 1..MaxBatch
    /\ done \in Nat
    /\ attempt \in 0..(MaxRetries - 1)
    /\ runs \in 0..MaxRuns
    /\ bi \in 1..(Len(chunks) + 1)

\* ------------------------------------------------ shared by the properties
\* the lines of the output file as the program reads them back
OutFileLines == IF out_exists THEN read_lines(out_txt) ELSE <<>>

running == pc \in {"loop", "retry", "write"}
started == pc # "idle"

\* a line holding nothing but blanks
BlankSrc(l) == \A k \in 1..Len(l) : l[k] = SP

\* the batch (from 1) that holds position i (from 1) of the source when the
\* run starts at the first line, and the positions of a batch
BatchOf(i) == ((i - 1) \div batch_size) + 1
PositionsOf(b) == {i \in 1..Len(src_lines) : BatchOf(i) = b}
BlankBatchAt(i) == \A j \in PositionsOf(BatchOf(i)) : BlankSrc(src_lines[j])

\* what a newline-collapsed, trimmed reply string looks like, by hand
AsOneLine(t) ==
    IF t = <<"b", LF, "b", SP>> THEN <<"b", SP, "b">>
    ELSE IF t = <<"b", CR, "b">> THEN <<"b", CR, "b">>
    ELSE t

\* the entry a fresh run owes position i: "" in an all-blank batch, else the
\* accepted reply for that line made a single line
OwedEntry(i) == IF BlankBatchAt(i) THEN <<>> ELSE AsOneLine(accepted[i])

\* source lines in the batches the loop has passed (the batch at the
\* checkpoint included)
LinesPassed ==
    Cardinality({i \in 1..Len(src_lines) :
                    BatchOf(i) < bi + (IF pc = "write" THEN 1 ELSE 0)})

\* ---------------------------------------------------------------------- C1
\* C1: in a fresh run (done = 0, input not empty) against a remote whose
\* attempts may fail in any pattern, the accumulator always holds exactly one
\* entry per source line of the batches passed, entry i being the one owed to
\* source line i (the accepted reply for it, or "" in an all-blank batch); a
\* run is aborted only after a batch failed all its attempts; and on
\* completion the accumulator covers every source line and the output file is
\* exactly these entries, one per line: the failures leave no trace.
C1_FreshRunExactlyOnce ==
    (started /\ done = 0 /\ src_lines # <<>>) =>
        /\ Len(out_lines) = LinesPassed
        /\ Len(accepted) = Len(out_lines)
        /\ \A i \in 1..Len(out_lines) : out_lines[i] = OwedEntry(i)
        /\ pc = "aborted" => attempt = MaxRetries - 1
        /\ pc = "done" =>
              /\ Len(out_lines) = Len(src_lines)
              /\ out_exists
              /\ out_txt = write_text([i \in 1..Len(src_lines) |-> OwedEntry(i)])

\* a fresh run over a full-size input completed after failed attempts, with
\* both a translated and a passed-through batch
C1_Witness ==
    /\ pc = "done" /\ done = 0 /\ retried
    /\ Len(src_lines) = MaxLines /\ Len(chunks) >= 2
    /\ \E i \in 1..Len(src_lines) : BlankBatchAt(i)
    /\ \E i \in 1..Len(src_lines) : ~BlankBatchAt(i)

\* ---------------------------------------------------------------------- C2
\* C2: a completed run leaves an output file with exactly as many lines as
\* the input, and while a run is under way the output file never has more
\* lines than the input, whatever --resume says and whatever output file was
\* there before.
C2_LineCountOfInput ==
    /\ pc = "done" => Len(OutFileLines) = Len(src_lines)
    /\ started => Len(OutFileLines) <= Len(src_lines)

\* ---------------------------------------------------------------------- C3
RECURSIVE LinesIn(_, _)
\* source lines in the first b chunks
LinesIn(cs, b) == IF b = 0 THEN 0 ELSE Len(cs[b]) + LinesIn(cs, b - 1)

\* C3: a run is aborted only by the failure of the 8th attempt of a batch,
\* every failed attempt before it having been followed by one more; the
\* failing batch adds nothing to the accumulator or to the output file, which
\* holds what the last checkpoint wrote; and nothing more happens in that
\* run: no batch is attempted and no checkpoint is written after the failure.
C3_AbortKeepsLastCheckpoint ==
    /\ [](pc = "aborted" =>
            /\ attempt = MaxRetries - 1
            /\ called /\ retried
            /\ Len(out_lines) = done + LinesIn(chunks, bi - 1)
            /\ bi > 1 => (out_exists /\ out_txt = write_text(out_lines)))
    /\ [][(pc' = "aborted" /\ pc # "aborted") =>
            (pc = "retry" /\ UNCHANGED <<files, out_lines, bi, attempt>>)]_vars
    /\ [][(pc = "retry" /\ pc' = "retry") =>
            (attempt' = attempt + 1 /\ UNCHANGED <<files, out_lines, bi>>)]_vars
    /\ [][pc = "aborted" => (UNCHANGED files /\ runs' = runs + 1)]_vars

\* a resumed run aborted after a checkpoint of its own
C3_Witness ==
    /\ pc = "aborted" /\ bi > 1
    /\ resume /\ done > 0
    /\ Len(out_lines) > done

\* ---------------------------------------------------------------------- C4
\* C4: a --resume run over n input lines that finds an output file of k <= n
\* lines sets done to k, chunks only source lines k+1..n, keeps the k lines
\* it found as the first k lines of the output file at every moment, and
\* ends with an output file of n lines; without --resume, or with no output
\* file, done is 0.
C4_ResumeKeepsPrefix ==
    /\ (started /\ ~resume) => done = 0
    /\ (started /\ resume /\ ~out_exists) => done = 0
    /\ (started /\ resume /\ done <= Len(src_lines)) =>
          /\ LinesIn(chunks, Len(chunks)) = Len(src_lines) - done
          /\ Len(OutFileLines) >= done
          /\ SubSeq(OutFileLines, 1, done) = SubSeq(out_lines, 1, done)
          /\ pc = "done" => Len(OutFileLines) = Len(src_lines)

\* ---------------------------------------------------------------------- C5
\* the batch of position i when a run from the first line uses batch size bs
BatchOfWith(i, bs) == ((i - 1) \div bs) + 1

\* what a run from the first line, never interrupted, leaves in the output
\* file when the remote is well behaved and the batch size is bs
Uninterrupted(bs) ==
    [i \in 1..Len(src_lines) |->
        IF \A j \in 1..Len(src_lines) :
               BatchOfWith(j, bs) = BatchOfWith(i, bs) => BlankSrc(src_lines[j])
        THEN <<>>
        ELSE AsOneLine(Translate(src_lines[i]))]

\* C5: when a run was aborted by a fatal batch failure, a following --resume
\* run over the same input, with a well-behaved remote in both runs, ends
\* with the output file an uninterrupted run would have written (with some
\* batch size).
C5_AbortedThenResumed ==
    (/\ pc = "done" /\ resume
     /\ prev.ended = "aborted" /\ prev.well_behaved
     /\ WellBehaved(src_lines, done, accepted)) =>
        \E bs \in 1..MaxBatch :
            out_exists /\ out_txt = write_text(Uninterrupted(bs))

\* ---------------------------------------------------------------------- C6
\* C6: a --resume run that finds as many output lines as input lines
\* (done = total) has no batch, makes no remote call and no write: no step of
\* it changes the output file, and it can only finish; a run after it finds
\* the same file.
C6_ResumeOfCompleteIsNoOp ==
    /\ [](started /\ resume /\ done = Len(src_lines) =>
            /\ chunks = <<>>
            /\ ~called
            /\ pc \in {"loop", "done"}
            /\ out_lines = OutFileLines)
    /\ [][(started /\ resume /\ done = Len(src_lines)) => UNCHANGED files]_vars

\* the second of two --resume runs over a complete output file that neither
\* of them wrote
C6_Witness ==
    /\ pc = "done" /\ resume /\ runs = 2
    /\ prev.ended = "done"
    /\ done = Len(src_lines) /\ done = MaxLines
    /\ out_exists /\ out_txt \in PriorTexts

\* ---------------------------------------------------------------------- C7
\* C7: the done count computed at startup is within 0..total, for every
\* input file and every output file found, with or without --resume.
C7_DoneWithinTotal == started => (0 <= done /\ done <= Len(src_lines))

\* ---------------------------------------------------------------------- C8
\* C8: at every moment of every run the output file has no more lines than
\* the run has processed: the resume prefix plus the lines of the batches
\* handled so far.
C8_FileNotAheadOfProgress ==
    started =>
        Len(OutFileLines) <=
            done + LinesIn(chunks, bi - 1 + (IF pc = "write" THEN 1 ELSE 0))

\* ---------------------------------------------------------------------- C9
AllBlankSrc(batch) == \A k \in 1..Len(batch) : BlankSrc(batch[k])

\* C9: the remote is only ever called for a batch with a non-blank line, and
\* then the request holds the whole batch; an all-blank batch goes from the
\* loop straight to the checkpoint, adding one "" per line and no remote call.
C9_BlankBatchBypassesRemote ==
    /\ [](pc = "retry" =>
            /\ bi <= Len(chunks)
            /\ ~AllBlankSrc(chunks[bi])
            /\ lines = chunks[bi])
    /\ [](pc = "write" => Len(out_lines) = done + LinesIn(chunks, bi))
    /\ [][(pc = "loop" /\ bi <= Len(chunks) /\ AllBlankSrc(chunks[bi])) =>
            /\ pc' = "write"
            /\ out_lines' = out_lines \o [k \in 1..Len(chunks[bi]) |-> <<>>]
            /\ UNCHANGED <<files, called, retried, attempt>>]_vars
    /\ [][(pc = "loop" /\ bi <= Len(chunks) /\ ~AllBlankSrc(chunks[bi])) =>
            /\ pc' = "retry"
            /\ lines' = chunks[bi]
            /\ UNCHANGED <<files, out_lines>>]_vars

\* a batch of an empty and a whitespace-only line reached its checkpoint in
\* a run that never called the remote
C9_Witness ==
    /\ pc = "write" /\ ~called
    /\ Len(chunks[bi]) = 2
    /\ \E k \in 1..2 : chunks[bi][k] = <<>>
    /\ \E k \in 1..2 : chunks[bi][k] = <<SP>>
    /\ SubSeq(out_lines, Len(out_lines) - 1, Len(out_lines)) = << <<>>, <<>> >>

\* --------------------------------------------------------------------- C10
\* C10: when a run from the first line completes, the output entry of every
\* empty source line is empty.
C10_EmptyLineStaysEmpty ==
    (pc = "done" /\ done = 0) =>
        \A i \in 1..Len(src_lines) :
            src_lines[i] = <<>> => (i <= Len(out_lines) /\ out_lines[i] = <<>>)

\* --------------------------------------------------------------------- C12
\* C12: after every checkpoint the output file, read back, has as many lines
\* as the accumulator, whatever strings the remote returned.
C12_CheckpointLineCount ==
    (pc \in {"loop", "retry", "done", "aborted"} /\ bi > 1) =>
        Len(OutFileLines) = Len(out_lines)

\* --------------------------------------------------------------------- C17
\* s is a prefix of t
IsPrefix(s, t) == Len(s) <= Len(t) /\ SubSeq(t, 1, Len(s)) = s

\* a step that changes the output file
FileWritten == out_exists' # out_exists \/ out_txt' # out_txt

\* C17 as stated: every write to the output file leaves a file that begins
\* with the lines the file had before, in every run, with or without
\* --resume, whatever output file was there before the run.
C17_EveryWriteExtends ==
    [][FileWritten => IsPrefix(OutFileLines, OutFileLines')]_vars

\* C17 amended: every write to the output file leaves a file that begins
\* with the lines the file had before, except the first write of a run
\* without --resume, which replaces whatever output file was there.
C17_WritesExtendAfterFirst ==
    [][FileWritten =>
         (IsPrefix(OutFileLines, OutFileLines') \/ (~resume /\ bi = 1))]_vars

\* a --resume run that found lines has written two checkpoints after them
C17_Witness ==
    /\ pc = "loop" /\ resume /\ done > 0 /\ bi > 2
    /\ out_exists /\ out_txt = write_text(out_lines)
    /\ Len(out_lines) > done + 1

\* --------------------------------------------------------------------- C18
\* the source lines of batch b of this run, by position
BatchSlice(b) ==
    SubSeq(src_lines, done + LinesIn(chunks, b - 1) + 1,
                      done + LinesIn(chunks, b))

\* C18: the batches are handled in input order, one at a time.  The program
\* has one thread, and a remote request is outstanding only while it is in
\* the retry loop of the one batch the loop is at.  The first attempt for a
\* batch starts from the top of the loop, when the checkpoint of the batch
\* before it is in the output file; within a run the output file is written
\* and the loop advances only at a checkpoint, which comes after the batch
\* was appended and advances the loop by exactly one batch.
C18_StrictSequencing ==
    /\ [](pc \in {"retry", "write"} =>
            /\ bi <= Len(chunks)
            /\ chunks[bi] = BatchSlice(bi))
    /\ [](pc = "retry" => lines = chunks[bi])
    /\ [](pc \in {"loop", "retry"} =>
            /\ Len(out_lines) = done + LinesIn(chunks, bi - 1)
            /\ bi > 1 => (out_exists /\ out_txt = write_text(out_lines)))
    /\ [][(pc' = "retry" /\ pc # "retry") =>
            (pc = "loop" /\ attempt' = 0 /\ bi' = bi /\ lines' = chunks[bi])]_vars
    /\ [][(runs' = runs /\ (FileWritten \/ bi' # bi)) =>
            /\ pc = "write" /\ pc' = "loop"
            /\ bi' = bi + 1
            /\ Len(out_lines) = done + LinesIn(chunks, bi)
            /\ out_lines' = out_lines
            /\ out_exists' /\ out_txt' = write_text(out_lines)]_vars
    /\ [][(runs' = runs /\ out_lines' # out_lines) =>
            (pc \in {"loop", "retry"} /\ pc' = "write" /\ ~FileWritten)]_vars

\* the first attempt for the second batch, the first batch having been
\* translated by the remote and checkpointed
C18_Witness ==
    /\ pc = "retry" /\ attempt = 0 /\ bi = 2
    /\ called /\ done = 0
    /\ out_exists /\ out_txt = write_text(out_lines)
    /\ Len(out_lines) = Len(chunks[1])

\* --------------------------------------------------------------------- C19
\* a step of the run under way
RunStep ==
    \/ BlankBatch
    \/ BeginTranslate
    \/ AttemptReturn
    \/ AttemptRetry
    \/ AttemptRaise
    \/ Checkpoint
    \/ Finish

\* The interpreter keeps running main, every remote call returns or fails
\* and every sleep ends: a run that can take a step takes one.
FairSpec == Spec /\ WF_vars(RunStep)

\* ceil((total - done) / batch_size), 0 when nothing remains
BatchesOwed ==
    IF done >= Len(src_lines) THEN 0
    ELSE (Len(src_lines) - done + batch_size - 1) \div batch_size

\* C19: every run ends, aborted or done; it is aborted only when a batch
\* failed all 8 attempts; no batch gets more than 8 remote calls, and a run
\* writes at most ceil(remaining / batch_size) checkpoints.
C19_RunTerminates ==
    /\ running ~> (pc \in {"done", "aborted"})
    /\ [](pc = "retry" => attempt + 1 <= MaxRetries)
    /\ [](pc = "aborted" => (retried /\ attempt + 1 = MaxRetries))
    /\ [](started => (Len(chunks) = BatchesOwed /\ bi - 1 <= BatchesOwed))
    /\ [](pc = "done" => bi - 1 = BatchesOwed)

\* a run over three batches ended after its last batch succeeded on the
\* 8th call
C19_Witness ==
    /\ pc = "done" /\ retried /\ called
    /\ BatchesOwed = MaxLines /\ bi = MaxLines + 1

\* ------------------------------------------------------- chunk_list alone
\* chunk_list applied to any list of up to MaxItems lines with any chunk
\* size up to MaxChunk: src_lines holds the items, batch_size the chunk size
\* and chunks the result.
ChunkInit ==
    /\ src_lines \in SeqsUpTo(SrcLine, MaxItems)
    /\ batch_size \in 1..MaxChunk
    /\ chunks = <<>>
    /\ pc = "idle"
    /\ in_txt = <<>>
    /\ out_exists = FALSE
    /\ out_txt = <<>>
    /\ resume = FALSE
    /\ done = 0
    /\ out_lines = <<>>
    /\ bi = 1
    /\ lines = <<>>
    /\ attempt = 0
    /\ runs = 0
    /\ prev = [ended |-> "idle", well_behaved |-> TRUE]
    /\ called = FALSE
    /\ retried = FALSE
    /\ accepted = <<>>
    /\ RetryIdle

ChunkApply ==
    /\ UNCHANGED retry_state
    /\ pc = "idle"
    /\ chunks' = chunk_list(src_lines, batch_size)
    /\ pc' = "done"
    /\ UNCHANGED <<files, args, src_lines, done, out_lines, bi, lines,
                   attempt, history>>

ChunkNext == ChunkApply

ChunkSpec == ChunkInit /\ [][ChunkNext]_vars

\* --------------------------------------------------------------------- C15
RECURSIVE Flatten(_)
\* the batches one after the other
Flatten(cs) == IF cs = <<>> THEN <<>> ELSE Head(cs) \o Flatten(Tail(cs))

\* C15: the batches chunk_list returns, concatenated in order, are the
\* input: same elements, same order, none dropped, none twice.
C15_ChunksRoundTrip == pc = "done" => Flatten(chunks) = src_lines

\* a list of three different lines cut into a full and a partial batch
C15_Witness ==
    /\ pc = "done" /\ batch_size = 2
    /\ src_lines = << <<"a">>, <<>>, <<SP>> >>
    /\ Len(chunks) = 2

\* --------------------------------------------------------------------- C16
\* ceil(n / b)
CeilDiv(n, b) == (n + b - 1) \div b

\* C16: for n items and chunk size b >= 1 chunk_list returns ceil(n / b)
\* batches, each of length b but the last, whose length is in 1..b; no batch
\* is empty and no items give no batch.
C16_ChunkShape ==
    pc = "done" =>
        /\ Len(chunks) = CeilDiv(Len(src_lines), batch_size)
        /\ \A k \in 1..(Len(chunks) - 1) : Len(chunks[k]) = batch_size
        /\ chunks # <<>> =>
              Len(chunks[Len(chunks)]) \in 1..batch_size
        /\ \A k \in 1..Len(chunks) : chunks[k] # <<>>
        /\ src_lines = <<>> => chunks = <<>>

\* the most items in batches of 3: a full batch and a last batch of one
C16_Witness ==
    /\ pc = "done" /\ batch_size = 3 /\ Len(src_lines) = MaxItems
    /\ Len(chunks) = CeilDiv(MaxItems, 3)
    /\ Len(chunks[1]) = 3
    /\ Len(chunks[Len(chunks)]) < 3

\* --------------------------------------------------- call_with_retry alone
\* call_with_retry(_do, max_retries) as translate_batch uses it, for any
\* batch of up to MaxBatch lines and any max_retries from 1 to the default:
\* every attempt is unfolded into the call of fn, what comes back, and the
\* sleep before the next attempt.
main_state == <<files, args, src_lines, done, out_lines, chunks, bi, history>>

RetryInit ==
    /\ lines \in SeqsUpTo(SrcLine, MaxBatch) \ {<<>>}
    /\ max_retries \in 1..MaxRetries
    /\ pc = "call"
    /\ attempt = 0
    /\ response = NoResponse
    /\ result = <<>>
    /\ failure = "none"
    /\ calls = 0
    /\ waits = 0
    /\ sleep_ms = 0
    /\ slept_ms = 0
    /\ in_txt = <<>>
    /\ out_exists = FALSE
    /\ out_txt = <<>>
    /\ resume = FALSE
    /\ batch_size = 1
    /\ src_lines = <<>>
    /\ done = 0
    /\ out_lines = <<>>
    /\ chunks = <<>>
    /\ bi = 1
    /\ runs = 0
    /\ prev = [ended |-> "idle", well_behaved |-> TRUE]
    /\ called = FALSE
    /\ retried = FALSE
    /\ accepted = <<>>

\* lines 59 and 72-96: fn is called; the request raises or a reply comes
Invoke ==
    /\ pc = "call"
    /\ \E resp \in Responses(Len(lines)) : response' = resp
    /\ calls' = calls + 1
    /\ pc' = "inflight"
    /\ UNCHANGED <<main_state, lines, attempt, max_retries, result, failure,
                   waits, sleep_ms, slept_ms>>

\* lines 59 and 98-108: fn returns and call_with_retry returns its value
FnReturns ==
    /\ pc = "inflight"
    /\ ~do_raises(lines, response)
    /\ result' = do_returns(response)
    /\ pc' = "returned"
    /\ UNCHANGED <<main_state, lines, attempt, max_retries, response,
                   failure, calls, waits, sleep_ms, slept_ms>>

\* lines 60-64: fn raised and attempts remain: sleep
FnRaisesSleep ==
    /\ pc = "inflight"
    /\ do_raises(lines, response)
    /\ ~last_attempt(attempt, max_retries)
    /\ \E jitter \in JitterMs :
          /\ sleep_ms' = sleep_s(attempt, jitter)
          /\ slept_ms' = slept_ms + sleep_s(attempt, jitter)
    /\ waits' = waits + 1
    /\ pc' = "sleep"
    /\ UNCHANGED <<main_state, lines, attempt, max_retries, response,
                   result, failure, calls>>

\* line 57: the sleep is over, the loop goes to the next attempt
NextAttempt ==
    /\ pc = "sleep"
    /\ attempt' = attempt + 1
    /\ pc' = "call"
    /\ UNCHANGED <<main_state, lines, max_retries, response, result,
                   failure, calls, waits, sleep_ms, slept_ms>>

\* lines 60-62: fn raised on the last attempt: the failure is re-raised
FnRaisesLast ==
    /\ pc = "inflight"
    /\ do_raises(lines, response)
    /\ last_attempt(attempt, max_retries)
    /\ failure' = failure_of(lines, response)
    /\ pc' = "raised"
    /\ UNCHANGED <<main_state, lines, attempt, max_retries, response,
                   result, calls, waits, sleep_ms, slept_ms>>

RetryNext ==
    \/ Invoke
    \/ FnReturns
    \/ FnRaisesSleep
    \/ NextAttempt
    \/ FnRaisesLast

RetrySpec == RetryInit /\ [][RetryNext]_vars


RetryTypeOK ==
    /\ pc \in {"call", "inflight", "sleep", "returned", "raised"}
    /\ max_retries \in 1..MaxRetries
    /\ attempt \in 0..(max_retries - 1)
    /\ calls \in 0..max_retries
    /\ waits \in 0..(max_retries - 1)
    /\ failure \in {"none", "RemoteError", "BatchSizeMismatch"}
    /\ sleep_ms \in Nat
    /\ slept_ms \in Nat

\* the reply in hand parsed but does not have one translation per line
WrongLength ==
    /\ ~response.raised
    /\ Len(response.translations) # Len(lines)

\* the attempt in hand is the last one max_retries allows
OnLastAttempt == attempt = max_retries - 1

\* C11: translate_batch given N lines either returns exactly N translations,
\* each the reply's translation for that position made a single line, in
\* order, or fails.  A reply whose count differs from N is a batch-size
\* mismatch: nothing is returned for it, it is retried like any other
\* failure (a sleep, then another attempt), and on the last attempt it is
\* the failure that propagates.
C11_ExactlyNOrFails ==
    /\ [](pc = "returned" =>
            /\ ~response.raised
            /\ Len(response.translations) = Len(lines)
            /\ Len(result) = Len(lines)
            /\ \A k \in 1..Len(lines) :
                   result[k] = AsOneLine(response.translations[k]))
    /\ [](pc # "returned" => result = <<>>)
    /\ [][(pc = "inflight" /\ WrongLength) =>
            /\ result' = <<>>
            /\ IF OnLastAttempt
               THEN pc' = "raised" /\ failure' = "BatchSizeMismatch"
               ELSE pc' = "sleep" /\ failure' = "none"]_vars
    /\ [][(pc = "inflight" /\ response.raised) =>
            /\ result' = <<>>
            /\ IF OnLastAttempt
               THEN pc' = "raised" /\ failure' = "RemoteError"
               ELSE pc' = "sleep" /\ failure' = "none"]_vars

\* two lines were sent, every attempt failed, and the last reply held three
\* translations: the mismatch propagated
C11_Witness ==
    /\ pc = "raised"
    /\ failure = "BatchSizeMismatch"
    /\ max_retries = MaxRetries
    /\ Len(lines) = 2
    /\ Len(response.translations) = 3


\* the failure an attempt's outcome stands for, by hand
KindOf(resp) ==
    IF resp.raised THEN "RemoteError"
    ELSE IF Len(resp.translations) # Len(lines) THEN "BatchSizeMismatch"
    ELSE "none"

\* C13: call_with_retry with maximum M >= 1 invokes the operation at least
\* once and at most M times; the first successful invocation ends it and its
\* value is what is returned; there is exactly one wait between two
\* consecutive invocations, none after a success and none after the M-th
\* failure; when all M invocations fail, the failure of the M-th invocation
\* is what is raised, whatever its kind.
C13_RetryContract ==
    /\ [](calls <= max_retries)
    /\ [](pc = "call" => calls = attempt /\ waits = attempt)
    /\ [](pc \in {"inflight", "returned", "raised"} =>
            calls = attempt + 1 /\ waits = attempt)
    /\ [](pc = "sleep" =>
            /\ calls = attempt + 1
            /\ waits = attempt + 1
            /\ calls < max_retries
            /\ KindOf(response) # "none")
    /\ [](pc = "returned" =>
            /\ calls >= 1
            /\ KindOf(response) = "none"
            /\ failure = "none"
            /\ result = [k \in 1..Len(lines) |->
                            AsOneLine(response.translations[k])])
    /\ [](pc = "raised" =>
            /\ calls = max_retries
            /\ waits = max_retries - 1
            /\ failure # "none"
            /\ failure = KindOf(response))
    /\ [][(pc = "inflight" /\ KindOf(response) = "none") =>
            pc' = "returned" /\ calls' = calls /\ waits' = waits]_vars
    /\ [][(pc = "inflight" /\ KindOf(response) # "none") =>
            /\ pc' = (IF calls = max_retries THEN "raised" ELSE "sleep")
            /\ calls' = calls
            /\ response' = response]_vars
    /\ [][pc = "sleep" => pc' = "call" /\ waits' = waits]_vars
    /\ [][pc = "call" => pc' = "inflight" /\ calls' = calls + 1]_vars
    /\ [][pc \notin {"returned", "raised"}]_vars

\* three attempts allowed, the remote failed three times: two waits, and
\* the third failure came out
C13_Witness ==
    /\ pc = "raised"
    /\ max_retries = 3
    /\ calls = 3
    /\ waits = 2
    /\ failure = "RemoteError"

\* whole seconds of a time in milliseconds
WholeSeconds(ms) == ms \div 1000

\* the jitter part of a time in milliseconds
JitterOf(ms) == ms % 1000

\* C14 as stated: the wait after failed attempt a is 2^a seconds plus a
\* jitter in [0, 0.5), and when all M attempts fail the last wait performed
\* (if there was one) has integer part 2^(M-1) seconds.
C14_LastWaitIsTwoToMMinusOne ==
    /\ (pc = "sleep" =>
            /\ WholeSeconds(sleep_ms) = 2 ^ attempt
            /\ JitterOf(sleep_ms) < 500)
    /\ ((pc = "raised" /\ waits >= 1) =>
            WholeSeconds(sleep_ms) = 2 ^ (max_retries - 1))

\* C14 amended: the wait after failed attempt a (from 0) is 2^a seconds plus
\* a jitter in [0, 0.5), and it happens only if an attempt remains.  When
\* all M attempts fail there are M - 1 waits, after attempts 0 .. M-2: the
\* last one has integer part 2^(M-2) seconds (64 for M = 8; no wait at all
\* for M = 1), it is the longest single wait, and the waits add up to
\* 2^(M-1) - 1 seconds plus the jitters, that is to less than
\* 2^(M-1) - 1 + (M-1)/2 seconds.
C14_BackoffSchedule ==
    /\ [](pc = "sleep" =>
            /\ WholeSeconds(sleep_ms) = 2 ^ attempt
            /\ JitterOf(sleep_ms) < 500)
    /\ [](waits = 0 => sleep_ms = 0 /\ slept_ms = 0)
    /\ [](waits >= 1 =>
            /\ WholeSeconds(sleep_ms) = 2 ^ (waits - 1)
            /\ JitterOf(sleep_ms) < 500
            /\ slept_ms >= 1000 * (2 ^ waits - 1)
            /\ slept_ms < 1000 * (2 ^ waits - 1) + 500 * waits
            /\ slept_ms - sleep_ms < sleep_ms + 500 * (waits - 1))
    /\ [](pc = "raised" => waits = max_retries - 1)
    /\ []((pc = "raised" /\ max_retries = MaxRetries) =>
            WholeSeconds(sleep_ms) = 64)
    /\ [][waits' # waits =>
            /\ waits' = waits + 1
            /\ slept_ms' = slept_ms + sleep_ms'
            /\ (waits >= 1 => sleep_ms' > sleep_ms)]_vars

\* all eight attempts failed: seven waits, the last of 64 seconds and a
\* jitter
C14_Witness ==
    /\ pc = "raised"
    /\ max_retries = MaxRetries
    /\ waits = 7
    /\ WholeSeconds(sleep_ms) = 64
    /\ slept_ms >= 127000

====
